---- MODULE Spec2Model ----
(***************************************************************************)
(* Model of the ChatGPT client (src/src/client.rs): the streaming sends    *)
(* send_history_streaming / send_message_streaming with the decoder built  *)
(* by process_streaming_response, the non-streamed sends of a history, and *)
(* the restoring of a conversation.  Text is a sequence of bytes, each     *)
(* byte a one-element string; the two bytes of one non-ASCII character are *)
(* "C3" and "A9".                                                          *)
(***************************************************************************)
EXTENDS Integers, Sequences, FiniteSets, TLC

\* ---------------------------------------------------------------- bounds
MaxEvents == 2
MaxParts == 2
MaxHistory == 2

\* ------------------------------------------------------- text primitives
NL == "\n"
Terminator == <<NL, NL>>
DataPrefix == <<"d", "a", "t", "a", ":", " ">>
Sentinel == <<"[", "D", "O", "N", "E", "]">>

StartsWith(s, p) == Len(s) >= Len(p) /\ SubSeq(s, 1, Len(p)) = p

EndsWith(s, p) == Len(s) >= Len(p) /\ SubSeq(s, Len(s) - Len(p) + 1, Len(s)) = p

\* str::strip_prefix: the remainder after the prefix, or None
StripPrefix(s, p) ==
  IF StartsWith(s, p)
    THEN [some |-> TRUE, rest |-> SubSeq(s, Len(p) + 1, Len(s))]
    ELSE [some |-> FALSE, rest |-> <<>>]

\* str::strip_suffix: the text before the suffix, or None
StripSuffix(s, p) ==
  IF EndsWith(s, p)
    THEN [some |-> TRUE, rest |-> SubSeq(s, 1, Len(s) - Len(p))]
    ELSE [some |-> FALSE, rest |-> <<>>]

\* a variant of FindTerminator that looks for a single newline
FindSingleNewline(s) ==
  LET hits == {i \in 1..(Len(s) - 1) : s[i + 1] = NL}
  IN IF hits = {} THEN 0 ELSE CHOOSE i \in hits : \A j \in hits : i <= j

\* index of the first byte of the leftmost "\n\n" in s, 0 when there is none
FindTerminator(s) ==
  LET hits == {i \in 1..(Len(s) - 1) : s[i] = NL /\ s[i + 1] = NL}
  IN IF hits = {} THEN 0 ELSE CHOOSE i \in hits : \A j \in hits : i <= j

\* str::split_inclusive("\n\n"): every piece but the last ends with the
\* terminator; a trailing empty piece is not produced
RECURSIVE SplitInclusive(_)
SplitInclusive(s) ==
  IF s = <<>> THEN <<>>
  ELSE LET i == FindTerminator(s)
       IN IF i = 0 THEN <<s>>
          ELSE <<SubSeq(s, 1, i + 1)>> \o SplitInclusive(SubSeq(s, i + 2, Len(s)))

\* str::from_utf8 on the modelled bytes: "C3" opens a two-byte character and
\* "A9" is its continuation byte; every other byte is ASCII
Utf8Valid(bytes) ==
  /\ \A i \in 1..Len(bytes) : bytes[i] = "C3" => (i < Len(bytes) /\ bytes[i + 1] = "A9")
  /\ \A i \in 1..Len(bytes) : bytes[i] = "A9" => (i > 1 /\ bytes[i - 1] = "C3")

\* ------------------------------------------------------- response events
Done == [variant |-> "Done"]
BeginResponse(role, idx) == [variant |-> "BeginResponse", role |-> role, response_index |-> idx]
Content(delta, idx) == [variant |-> "Content", delta |-> delta, response_index |-> idx]
CloseResponse(idx) == [variant |-> "CloseResponse", response_index |-> idx]

Ok(chunk) == [ok |-> TRUE, chunk |-> chunk]
Err(kind) == [ok |-> FALSE, error |-> kind]

\* ------------------------------------------------- payload (types.rs)
\* A payload is written in a short notation for the JSON document it stands
\* for: "{" choice* "}", a choice being its index digit followed by its delta:
\* "r" (role announcement), "e" (empty delta), "c" text (content delta, the
\* text being a run of "C3" "A9" characters).
Whitespace == {NL, " "}
Digits == {"0", "1"}
DigitValue(d) == IF d = "1" THEN 1 ELSE 0

RECURSIVE TrimStart(_)
TrimStart(s) ==
  IF s # <<>> /\ s[1] \in Whitespace THEN TrimStart(Tail(s)) ELSE s

RECURSIVE TrimEnd(_)
TrimEnd(s) ==
  IF s # <<>> /\ s[Len(s)] \in Whitespace THEN TrimEnd(SubSeq(s, 1, Len(s) - 1)) ELSE s

\* length of the longest run of content bytes at the head of s
RECURSIVE TextRun(_)
TextRun(s) ==
  IF s # <<>> /\ s[1] \in {"C3", "A9"} THEN 1 + TextRun(Tail(s)) ELSE 0

\* the choices array of the document body s, or a failure
RECURSIVE ParseChoices(_)
ParseChoices(s) ==
  IF s = <<>> THEN [ok |-> TRUE, choices |-> <<>>]
  ELSE IF Len(s) < 2 \/ s[1] \notin Digits \/ s[2] \notin {"r", "e", "c"}
    THEN [ok |-> FALSE, choices |-> <<>>]
  ELSE LET n == IF s[2] = "c" THEN TextRun(SubSeq(s, 3, Len(s))) ELSE 0
           delta == IF s[2] = "r" THEN [kind |-> "AnnounceRoles", role |-> "assistant"]
                    ELSE IF s[2] = "c" THEN [kind |-> "StreamContent", content |-> SubSeq(s, 3, 2 + n)]
                    ELSE [kind |-> "Close"]
           more == ParseChoices(SubSeq(s, 3 + n, Len(s)))
       IN IF more.ok
            THEN [ok |-> TRUE,
                  choices |-> <<[index |-> DigitValue(s[1]), delta |-> delta]>> \o more.choices]
            ELSE more

\* serde_json::from_str::<InboundResponseChunk>: surrounding whitespace is
\* accepted, anything else that is not one document is an error
ParseJson(text) ==
  LET t == TrimEnd(TrimStart(text))
  IN IF Len(t) >= 2 /\ t[1] = "{" /\ t[Len(t)] = "}"
       THEN ParseChoices(SubSeq(t, 2, Len(t) - 1))
       ELSE [ok |-> FALSE, choices |-> <<>>]

\* ------------------------------------------------------------ the decoder
\* a variant of IsSentinel that compares the chunk before its terminator is
\* stripped
IsSentinelUnstripped(data) == data = Sentinel \o Terminator

\* data == "[DONE]"
IsSentinel(data) == data = Sentinel

\* a variant of ChunkOfChoice that takes an empty delta for a content delta
ChunkOfChoiceCloseAsContent(choice) ==
  IF choice.delta.kind = "AnnounceRoles"
    THEN BeginResponse(choice.delta.role, choice.index)
  ELSE IF choice.delta.kind = "StreamContent"
    THEN Content(choice.delta.content, choice.index)
  ELSE Content(<<>>, choice.index)

\* match choice.delta { ... }
ChunkOfChoice(choice) ==
  IF choice.delta.kind = "AnnounceRoles"
    THEN BeginResponse(choice.delta.role, choice.index)
  ELSE IF choice.delta.kind = "StreamContent"
    THEN Content(choice.delta.content, choice.index)
  ELSE CloseResponse(choice.index)

\* a variant of PushChunk that inserts at the front
PushChunkFront(response_chunks, parsed_chunk) == <<parsed_chunk>> \o response_chunks

\* a variant of FirstChoice that takes the last element
LastChoice(choices) == choices[Len(choices)]

\* parsed_data.choices[0].to_owned()
FirstChoice(choices) == choices[1]

\* response_chunks.push(parsed_chunk)
PushChunk(response_chunks, parsed_chunk) == Append(response_chunks, parsed_chunk)

\* a variant of StrippedChunks that lets the lines without the prefix through
StrippedChunksKeepUnprefixed(content_to_iterate) ==
  LET lines == SplitInclusive(content_to_iterate)
  IN [i \in 1..Len(lines) |->
        IF StripPrefix(lines[i], DataPrefix).some
          THEN StripPrefix(lines[i], DataPrefix).rest ELSE lines[i]]

\* split_inclusive("\n\n").filter_map(|line| line.strip_prefix("data: "))
StrippedChunks(content_to_iterate) ==
  LET lines == SplitInclusive(content_to_iterate)
      kept == SelectSeq(lines, LAMBDA line : StripPrefix(line, DataPrefix).some)
  IN [i \in 1..Len(kept) |-> StripPrefix(kept[i], DataPrefix).rest]

\* the for loop over the stripped chunks, from chunk i on; acc carries
\* response_chunks, the new unparsed, whether the loop panicked, and the
\* texts handed to the payload parser
RECURSIVE ChunkLoop(_, _, _)
ChunkLoop(chunks, i, acc) ==
  IF i > Len(chunks) THEN acc
  ELSE LET chunk == chunks[i]
           stripped == StripSuffix(chunk, Terminator)
       IN IF chunk = <<>> THEN ChunkLoop(chunks, i + 1, acc)
          ELSE IF ~stripped.some THEN [acc EXCEPT !.unparsed = chunk]
          ELSE IF IsSentinel(stripped.rest)
            THEN ChunkLoop(chunks, i + 1,
                   [acc EXCEPT !.response_chunks = PushChunk(@, Done)])
          ELSE LET parsed_data == ParseJson(chunk)
                   handed == Append(acc.handed, chunk)
               IN IF ~parsed_data.ok \/ parsed_data.choices = <<>>
                    THEN [acc EXCEPT !.panicked = TRUE, !.handed = handed]
                    ELSE ChunkLoop(chunks, i + 1,
                           [acc EXCEPT !.response_chunks =
                                          PushChunk(@, ChunkOfChoice(FirstChoice(parsed_data.choices))),
                                       !.handed = handed])

\* a variant of OnTransportError that has already taken the carry-over
OnTransportErrorDropsCarry(unparsed) ==
  [results |-> <<Err("ClientError")>>, unparsed |-> <<>>,
   panicked |-> FALSE, handed |-> <<>>]

\* Err(err) => return vec![Err(ClientError(err))]
OnTransportError(unparsed) ==
  [results |-> <<Err("ClientError")>>, unparsed |-> unparsed,
   panicked |-> FALSE, handed |-> <<>>]

\* a variant of OnInvalidUtf8 that has already taken the carry-over
OnInvalidUtf8DropsCarry(unparsed) ==
  [results |-> <<Err("ParsingError")>>, unparsed |-> <<>>,
   panicked |-> FALSE, handed |-> <<>>]

\* Err(parse_error) => return vec![Err(ParsingError(..))]
OnInvalidUtf8(unparsed) ==
  [results |-> <<Err("ParsingError")>>, unparsed |-> unparsed,
   panicked |-> FALSE, handed |-> <<>>]

\* the text the loop iterates: the carry-over, when there is one, followed by
\* the fragment
ContentToIterate(unparsed, parsed_bytes) ==
  IF unparsed # <<>> THEN unparsed \o parsed_bytes ELSE parsed_bytes

\* a valid fragment: join with the carry-over, clear it, run the loop
OnFragment(unparsed, parsed_bytes) ==
  LET r == ChunkLoop(StrippedChunks(ContentToIterate(unparsed, parsed_bytes)), 1,
                     [response_chunks |-> <<>>, unparsed |-> <<>>,
                      panicked |-> FALSE, handed |-> <<>>])
  IN [results |-> [i \in 1..Len(r.response_chunks) |-> Ok(r.response_chunks[i])],
      unparsed |-> r.unparsed, panicked |-> r.panicked, handed |-> r.handed]

\* the closure given to stream.map: one part of the byte stream in, the
\* vector of results out
ProcessPart(unparsed, part) ==
  IF ~part.ok THEN OnTransportError(unparsed)
  ELSE IF ~Utf8Valid(part.bytes) THEN OnInvalidUtf8(unparsed)
  ELSE OnFragment(unparsed, part.bytes)

\* ------------------------------------------------- what the server sends
\* The events a body is made of, by kind, and the text of each.
EventKinds == {"role", "content", "close", "done", "multi", "nochoices", "bad", "comment"}
WellFormedKinds == {"role", "content", "close", "done"}

Payload(kind) ==
  IF kind = "role" THEN <<"{", "0", "r", "}">>
  ELSE IF kind = "content" THEN <<"{", "1", "c", "C3", "A9", "}">>
  ELSE IF kind = "close" THEN <<"{", "0", "e", "}">>
  ELSE IF kind = "done" THEN Sentinel
  ELSE IF kind = "multi" THEN <<"{", "1", "e", "0", "r", "}">>
  ELSE IF kind = "nochoices" THEN <<"{", "}">>
  ELSE <<"{", "x">>

EventText(kind) ==
  IF kind = "comment" THEN <<":", "k">> \o Terminator
  ELSE DataPrefix \o Payload(kind) \o Terminator

RECURSIVE Render(_)
Render(kinds) ==
  IF kinds = <<>> THEN <<>> ELSE EventText(Head(kinds)) \o Render(Tail(kinds))

\* the body of an error answer: one JSON object, no event framing
ErrorBody == <<"{", "E", "}">>

KindSeqs == UNION {[1..n -> EventKinds] : n \in 1..MaxEvents}

StatusOk == 200
StatusUnauthorized == 401

\* reqwest's Response::error_for_status: client and server error codes
IsErrorStatus(status) == status >= 400 /\ status <= 599

Responses ==
  [status : {StatusOk}, error : {FALSE}, kinds : KindSeqs]
    \cup [status : {StatusOk, StatusUnauthorized}, error : {TRUE}, kinds : {<<>>}]

BodyOf(response) == IF response.error THEN ErrorBody ELSE Render(response.kinds)

\* ---------------------------------------------------- non-streamed sends
Roles == {"System", "User", "Assistant"}
ChatMessages == [role : Roles, content : {"hi"}]
Histories == UNION {[1..n -> ChatMessages] : n \in 0..MaxHistory}

\* what comes back for a request: the request or the decoding of the body
\* fails (.send().await? / .json().await?), or the body decodes to one of
\* the two variants of ServerResponse
Answers ==
  [kind : {"failure"}]
    \cup [kind : {"error"}, message : {"quota", "overloaded"},
          error_type : {"insufficient_quota", "server_error"}]
    \cup [kind : {"completion"}, completion : {"c1", "c2"}]

BackendError(message, error_type) ==
  [ok |-> FALSE, error |-> "BackendError", message |-> message, error_type |-> error_type]

\* a variant of MatchServerResponse that fills the two fields of the error
\* the wrong way round
MatchServerResponseSwapped(answer) ==
  IF answer.kind = "error"
    THEN BackendError(answer.error_type, answer.message)
    ELSE [ok |-> TRUE, completion |-> answer.completion]

\* match response { Error { error } => Err(BackendError {..}),
\*                  Completion(completion) => Ok(completion) }
MatchServerResponse(answer) ==
  IF answer.kind = "error"
    THEN BackendError(answer.message, answer.error_type)
    ELSE [ok |-> TRUE, completion |-> answer.completion]

\* send_history / send_history_functions: what the call returns
SendHistoryResult(answer) ==
  IF answer.kind = "failure" THEN Err("ClientError") ELSE MatchServerResponse(answer)

\* history: &Vec<ChatMessage> is only read, to build the request
HistoryAfterSend(history, answer) == history

\* ------------------------------------------------- restoring a conversation
\* A history file: absent, or present with a content that is the encoding of
\* a message sequence, text that is no such encoding, or bytes that are not
\* UTF-8 (and no encoding either); a present file may fail to open.
FileContents ==
  [kind : {"encoded"}, history : Histories] \cup [kind : {"malformed", "invalid_utf8"}]
Files ==
  {[exists |-> FALSE]} \cup [exists : {TRUE}, readable : BOOLEAN, content : FileContents]

\* the conversions the ? operator applies (crate::err)
FromIoError == Err("IOError")
FromSerdeJsonError == Err("ParsingError")
FromPostcardError == Err("ParsingError")

\* Conversation::new_with_history
NewWithHistory(history) == [ok |-> TRUE, conversation |-> [history |-> history]]

\* restore_conversation_json
RestoreConversationJson(file) ==
  IF ~file.exists THEN Err("ParsingError")
  ELSE IF ~file.readable THEN FromIoError
  ELSE IF file.content.kind = "invalid_utf8" THEN FromIoError
  ELSE IF file.content.kind = "malformed" THEN FromSerdeJsonError
  ELSE NewWithHistory(file.content.history)

\* restore_conversation_postcard
RestoreConversationPostcard(file) ==
  IF ~file.exists THEN Err("ParsingError")
  ELSE IF ~file.readable THEN FromIoError
  ELSE IF file.content.kind # "encoded" THEN FromPostcardError
  ELSE NewWithHistory(file.content.history)

\* ----------------------------------------------------------------- state
VARIABLES
  pc,        \* "idle", "failed", "rejected", "streaming", "panicked", "ended",
             \* "returned"
  response,  \* the server's answer to the request
  rest,      \* the bytes of the body the transport has not delivered yet
  unparsed,  \* the decoder's carry-over
  out,       \* the elements the returned stream has yielded so far
  nparts,    \* number of parts the transport has delivered
  parts,     \* every part delivered so far, with the decoder state it met
  handed,    \* every text handed to the payload parser so far
  call       \* the non-streamed call made, with its arguments and its result

vars == <<pc, response, rest, unparsed, out, nparts, parts, handed, call>>

NoResponse == [status |-> 0, error |-> FALSE, kinds |-> <<>>]
NoCall == [op |-> "none"]

Init ==
  /\ pc = "idle"
  /\ response = NoResponse
  /\ rest = <<>>
  /\ unparsed = <<>>
  /\ out = <<>>
  /\ nparts = 0
  /\ parts = <<>>
  /\ handed = <<>>
  /\ call = NoCall

\* process_streaming_response: an error status makes the call return Err,
\* any other status returns the stream with an empty carry-over
ProcessStreamingResponse(resp) ==
  IF IsErrorStatus(resp.status) THEN "rejected" ELSE "streaming"

\* send_history_streaming / send_message_streaming, the request failing
\* before any answer arrives (.send().await?)
SendFails ==
  /\ pc = "idle"
  /\ pc' = "failed"
  /\ UNCHANGED <<response, rest, unparsed, out, nparts, parts, handed, call>>

\* send_history_streaming / send_message_streaming with the server's answer
SendStreaming ==
  /\ pc = "idle"
  /\ \E resp \in Responses :
       /\ response' = resp
       /\ pc' = ProcessStreamingResponse(resp)
       /\ rest' = IF IsErrorStatus(resp.status) THEN <<>> ELSE BodyOf(resp)
  /\ unparsed' = <<>>
  /\ UNCHANGED <<out, nparts, parts, handed, call>>

\* one poll of the returned stream: the transport delivers part, the closure
\* maps it to a vector of results and flat_map yields them in order
Deliver(part, remaining) ==
  LET r == ProcessPart(unparsed, part)
  IN /\ nparts' = nparts + 1
     /\ rest' = remaining
     /\ parts' = Append(parts,
          [kind |-> IF ~part.ok THEN "failure"
                    ELSE IF ~Utf8Valid(part.bytes) THEN "invalid" ELSE "fragment",
           bytes |-> part.bytes, unparsed |-> unparsed, out |-> out])
     /\ handed' = handed \o r.handed
     /\ IF r.panicked
          THEN pc' = "panicked" /\ UNCHANGED <<unparsed, out>>
          ELSE pc' = pc /\ unparsed' = r.unparsed /\ out' = out \o r.results
     /\ UNCHANGED <<response, call>>

\* the bytes after which the transport ends a fragment: one place inside the
\* prefix, the end of the prefix, the first and the last byte of a payload,
\* the first byte of a two-byte character, and each newline
CutAfter == {"t", " ", "{", "[", "C3", "}", "]", NL}

\* the fragment lengths the transport chooses among: nothing, everything, or
\* up to one of the bytes of CutAfter
CutPoints(text) == {0, Len(text)} \cup {n \in 1..Len(text) : text[n] \in CutAfter}

\* the next bytes of the body arrive as one fragment
PollFragment ==
  /\ pc = "streaming"
  /\ nparts < MaxParts
  /\ \E n \in CutPoints(rest) :
       Deliver([ok |-> TRUE, bytes |-> SubSeq(rest, 1, n)], SubSeq(rest, n + 1, Len(rest)))

\* the transport reports a failure in place of a fragment
PollFailure ==
  /\ pc = "streaming"
  /\ nparts < MaxParts
  /\ Deliver([ok |-> FALSE, bytes |-> <<>>], rest)

\* the body is exhausted and the stream ends
StreamEnd ==
  /\ pc = "streaming"
  /\ rest = <<>>
  /\ pc' = "ended"
  /\ UNCHANGED <<response, rest, unparsed, out, nparts, parts, handed, call>>

\* send_history
SendHistory ==
  /\ pc = "idle"
  /\ \E history \in Histories, answer \in Answers :
       call' = [op |-> "send_history", history_before |-> history, answer |-> answer,
                history |-> HistoryAfterSend(history, answer),
                result |-> SendHistoryResult(answer)]
  /\ pc' = "returned"
  /\ UNCHANGED <<response, rest, unparsed, out, nparts, parts, handed>>

\* send_history_functions
SendHistoryFunctions ==
  /\ pc = "idle"
  /\ \E history \in Histories, answer \in Answers :
       call' = [op |-> "send_history_functions", history_before |-> history,
                answer |-> answer,
                history |-> HistoryAfterSend(history, answer),
                result |-> SendHistoryResult(answer)]
  /\ pc' = "returned"
  /\ UNCHANGED <<response, rest, unparsed, out, nparts, parts, handed>>

\* restore_conversation_json
RestoreJson ==
  /\ pc = "idle"
  /\ \E file \in Files :
       call' = [op |-> "restore_conversation_json", file |-> file,
                result |-> RestoreConversationJson(file)]
  /\ pc' = "returned"
  /\ UNCHANGED <<response, rest, unparsed, out, nparts, parts, handed>>

\* restore_conversation_postcard
RestorePostcard ==
  /\ pc = "idle"
  /\ \E file \in Files :
       call' = [op |-> "restore_conversation_postcard", file |-> file,
                result |-> RestoreConversationPostcard(file)]
  /\ pc' = "returned"
  /\ UNCHANGED <<response, rest, unparsed, out, nparts, parts, handed>>

Next ==
  \/ SendFails \/ SendStreaming \/ PollFragment \/ PollFailure \/ StreamEnd
  \/ SendHistory \/ SendHistoryFunctions \/ RestoreJson \/ RestorePostcard

Spec == Init /\ [][Next]_vars

\* ------------------------------------------------ vocabulary of the claims
\* the event each well-formed kind of input event stands for
Expected(kind) ==
  IF kind = "role" THEN BeginResponse("assistant", 0)
  ELSE IF kind = "content" THEN Content(<<"C3", "A9">>, 1)
  ELSE IF kind = "close" THEN CloseResponse(0)
  ELSE IF kind = "multi" THEN CloseResponse(1)
  ELSE Done

ExpectedResults(kinds) == [i \in 1..Len(kinds) |-> Ok(Expected(kinds[i]))]

WellFormed(kinds) == \A i \in 1..Len(kinds) : kinds[i] \in WellFormedKinds

WellFormedSeqs == {ks \in KindSeqs : WellFormed(ks)}

\* every well-formed sequence of events with its text
Rendered == {[kinds |-> ks, text |-> Render(ks)] : ks \in WellFormedSeqs}

WellFormedStream == pc \in {"streaming", "ended", "panicked"} /\ ~response.error /\ WellFormed(response.kinds)

\* the response events among the yielded elements, in order
EventsOf(results) ==
  LET oks == SelectSeq(results, LAMBDA r : r.ok)
  IN [i \in 1..Len(oks) |-> oks[i].chunk]

\* what the decoder yields for the whole text delivered as one fragment
SingleFragmentDecoding(text) == OnFragment(<<>>, text).results

RECURSIVE IsSubsequence(_, _)
IsSubsequence(a, b) ==
  IF a = <<>> THEN TRUE
  ELSE IF b = <<>> THEN FALSE
  ELSE IF Head(a) = Head(b) THEN IsSubsequence(Tail(a), Tail(b))
  ELSE IsSubsequence(a, Tail(b))

Count(seq, x) == Cardinality({i \in 1..Len(seq) : seq[i] = x})

\* decoder state after part i, and what part i made the stream yield
OutAfter(i) == IF i < Len(parts) THEN parts[i + 1].out ELSE out
UnparsedAfter(i) == IF i < Len(parts) THEN parts[i + 1].unparsed ELSE unparsed
ResultsOf(i) == SubSeq(OutAfter(i), Len(parts[i].out) + 1, Len(OutAfter(i)))
Panicked(i) == i = Len(parts) /\ pc = "panicked"

NoErrorYielded == \A i \in 1..Len(out) : out[i].ok

\* ------------------------------------------------------------------ claims

\* C1: for a well-formed event stream cut into any number of consecutive
\* fragments (none of them failing to decode), feeding the fragments one by
\* one yields the same sequence of response events as feeding the whole text
\* as a single fragment.
C1_FragmentationInvariance ==
  (pc = "ended" /\ WellFormedStream /\ NoErrorYielded)
    => out = SingleFragmentDecoding(Render(response.kinds))

\* C2: when fragment i ends with an event's payload and the first newline of
\* its terminator and fragment i+1 begins with the second newline, nothing is
\* emitted for that event while processing fragment i and the event is
\* emitted exactly once while processing fragment i+1.
C2_SplitTerminatorEmitsOnce ==
  \A i \in 1..(Len(parts) - 1) :
    \A k \in WellFormedKinds :
      \A before, after \in WellFormedSeqs \cup {<<>>} :
        ( /\ parts[i].kind = "fragment" /\ parts[i + 1].kind = "fragment"
          /\ parts[i].unparsed = <<>>
          /\ parts[i].bytes = Render(before) \o DataPrefix \o Payload(k) \o <<NL>>
          /\ parts[i + 1].bytes = <<NL>> \o Render(after) )
        => ( /\ ~Panicked(i + 1)
             /\ ResultsOf(i) = ExpectedResults(before)
             /\ ResultsOf(i + 1) = <<Ok(Expected(k))>> \o ExpectedResults(after) )

\* C3: for a well-formed stream whose only sentinel is its last event, once
\* all fragments have been processed the output holds exactly one Done and
\* that Done is its last element.
C3_ExactlyOneTerminalDone ==
  ( /\ pc = "ended" /\ WellFormedStream /\ NoErrorYielded
    /\ response.kinds[Len(response.kinds)] = "done"
    /\ Count(response.kinds, "done") = 1 )
  => (Count(out, Ok(Done)) = 1 /\ out[Len(out)] = Ok(Done))

\* C4: a complete prefixed event with a malformed payload makes the decoder
\* yield one error element; the decoder does not abort.
C4_MalformedPayloadIsErrorValue ==
  \A i \in 1..Len(parts) :
    (parts[i].kind = "fragment" /\ parts[i].unparsed = <<>> /\ parts[i].bytes = EventText("bad"))
      => ( /\ ~Panicked(i)
           /\ Len(ResultsOf(i)) = 1
           /\ ~ResultsOf(i)[1].ok )

\* C5: a fragment that is not valid UTF-8 yields exactly one ParsingError
\* element and no response event, does not abort the decoder and leaves the
\* carry-over as it was; a fragment of complete events delivered right after
\* it is decoded.
C5_InvalidUtf8IsOneParsingError ==
  \A i \in 1..Len(parts) :
    parts[i].kind = "invalid"
      => ( /\ ~Panicked(i)
           /\ ResultsOf(i) = <<Err("ParsingError")>>
           /\ UnparsedAfter(i) = parts[i].unparsed
           /\ (i < Len(parts) /\ parts[i].unparsed = <<>> /\ parts[i + 1].kind = "fragment")
                => \A r \in Rendered :
                     parts[i + 1].bytes = r.text
                       => ResultsOf(i + 1) = ExpectedResults(r.kinds) )

\* C5 witness: an invalid fragment met a non-empty carry-over and the stream
\* yielded the ParsingError.
C5_Witness ==
  \E i \in 1..Len(parts) :
    /\ parts[i].kind = "invalid"
    /\ parts[i].unparsed # <<>>
    /\ ResultsOf(i) = <<Err("ParsingError")>>

\* C6: for a well-formed stream, whatever the fragmentation, the response
\* events yielded so far are a subsequence of the events of the stream text
\* and of the single-fragment decoding: in stream order, none of them twice.
C6_OutputIsSubsequence ==
  WellFormedStream
    => /\ IsSubsequence(EventsOf(out), EventsOf(ExpectedResults(response.kinds)))
       /\ IsSubsequence(EventsOf(out), EventsOf(SingleFragmentDecoding(Render(response.kinds))))

\* C6 witness: two different fragments of a well-formed stream have each
\* yielded a response event.
C6_Witness ==
  /\ WellFormedStream
  /\ \E i, j \in 1..Len(parts) :
       /\ i < j
       /\ EventsOf(ResultsOf(i)) # <<>>
       /\ EventsOf(ResultsOf(j)) # <<>>
       /\ EventsOf(ResultsOf(i)) # EventsOf(ResultsOf(j))

\* the complete pieces of the text part i iterates that are the prefixed
\* sentinel
SentinelPieces(i) ==
  LET lines == SplitInclusive(ContentToIterate(parts[i].unparsed, parts[i].bytes))
  IN {n \in 1..Len(lines) : lines[n] = DataPrefix \o Sentinel \o Terminator}

\* C7: every complete piece "data: [DONE]" of a fragment that is processed to
\* its end yields exactly one Done, and no such piece is ever handed to the
\* payload parser.
C7_SentinelYieldsDoneUnparsed ==
  /\ \A n \in 1..Len(handed) : StripSuffix(handed[n], Terminator).rest # Sentinel
  /\ \A i \in 1..Len(parts) :
       (parts[i].kind = "fragment" /\ ~Panicked(i))
         => Count(ResultsOf(i), Ok(Done)) = Cardinality(SentinelPieces(i))

\* C7 witness: a fragment held the sentinel piece next to a payload piece
\* that went through the parser.
C7_Witness ==
  \E i \in 1..Len(parts) :
    /\ parts[i].kind = "fragment"
    /\ SentinelPieces(i) # {}
    /\ Count(ResultsOf(i), Ok(Done)) = 1
    /\ Len(ResultsOf(i)) = 2
    /\ handed # <<>>

\* C8: with an empty carry-over, a fragment made of k >= 1 complete
\* well-formed events and nothing else yields exactly the k events they stand
\* for, in input order, and leaves the carry-over empty.
C8_CompleteEventsOneFragment ==
  \A i \in 1..Len(parts) :
    (parts[i].kind = "fragment" /\ parts[i].unparsed = <<>>)
      => \A r \in Rendered :
           parts[i].bytes = r.text
             => ( /\ ~Panicked(i)
                  /\ ResultsOf(i) = ExpectedResults(r.kinds)
                  /\ UnparsedAfter(i) = <<>> )

\* C8 witness: one fragment carried two complete events of different kinds,
\* one of them with an empty delta, and both were yielded.
C8_Witness ==
  \E i \in 1..Len(parts) :
    /\ parts[i].kind = "fragment"
    /\ parts[i].unparsed = <<>>
    /\ parts[i].bytes = Render(<<"content", "close">>)
    /\ Len(ResultsOf(i)) = 2

\* C9: an empty fragment emits nothing and leaves the carry-over unchanged,
\* whatever the decoder state.
C9_EmptyFragmentIsNoOp ==
  \A i \in 1..Len(parts) :
    (parts[i].kind = "fragment" /\ parts[i].bytes = <<>>)
      => ( /\ ~Panicked(i)
           /\ ResultsOf(i) = <<>>
           /\ UnparsedAfter(i) = parts[i].unparsed )

\* C10: when the server answers a streaming request with an error, the call
\* returns a stream, and that stream yields no element.
C10_ErrorAnswerIsEmptyStream ==
  (pc # "idle" /\ response.error)
    => (pc \in {"streaming", "ended"} /\ out = <<>>)

\* C11: send_history and send_history_functions return a BackendError with
\* exactly the server's message and error type when, and only when, the
\* decoded response is the error variant; otherwise they return the
\* completion; in both outcomes the history passed in is unchanged.
C11_BackendErrorIffErrorVariant ==
  call.op \in {"send_history", "send_history_functions"}
    => /\ call.answer.kind = "error"
            => call.result = BackendError(call.answer.message, call.answer.error_type)
       /\ call.answer.kind = "completion"
            => call.result = [ok |-> TRUE, completion |-> call.answer.completion]
       /\ (~call.result.ok /\ call.result.error = "BackendError") <=> call.answer.kind = "error"
       /\ call.history = call.history_before

\* C11 witness: a send of a two-message history met the error variant and
\* returned the BackendError.
C11_Witness ==
  /\ call.op \in {"send_history", "send_history_functions"}
  /\ call.answer.kind = "error"
  /\ Len(call.history_before) = 2
  /\ call.result.error = "BackendError"

\* C12: restoring a conversation fails with a ParsingError, and constructs
\* no Conversation, whenever the file is absent or its content is not the
\* encoding of a message sequence.
C12_RestoreFailsWithParsingError ==
  ( /\ call.op \in {"restore_conversation_json", "restore_conversation_postcard"}
    /\ \/ ~call.file.exists
       \/ (call.file.readable /\ call.file.content.kind # "encoded") )
  => call.result = Err("ParsingError")

\* the text received in parts 1..i
RECURSIVE Received(_)
Received(i) == IF i = 0 THEN <<>> ELSE Received(i - 1) \o parts[i].bytes

\* what follows the last complete terminator of text
TrailingPiece(text) ==
  LET lines == SplitInclusive(text)
  IN IF lines = <<>> \/ EndsWith(lines[Len(lines)], Terminator)
       THEN <<>> ELSE lines[Len(lines)]

\* C13: after every decoded fragment the carry-over is, byte for byte, the
\* part of the text received so far that follows the last complete
\* terminator (empty when the text ends with a terminator).
C13_CarryOverVerbatim ==
  \A i \in 1..Len(parts) :
    ((\A j \in 1..i : parts[j].kind = "fragment") /\ ~Panicked(i))
      => UnparsedAfter(i) = TrailingPiece(Received(i))

\* every sequence of well-formed events and comments, with its text
CommentedSeqs == UNION {[1..n -> WellFormedKinds \cup {"comment"}] : n \in 1..MaxEvents}
RenderedCommented == {[kinds |-> ks, text |-> Render(ks)] : ks \in CommentedSeqs}
WithoutComments(kinds) == SelectSeq(kinds, LAMBDA k : k # "comment")

\* C14: a complete piece without the "data: " prefix (a comment) yields no
\* event and no error and changes nothing for the other pieces: a fragment of
\* complete events and comments yields exactly the events of its events, and
\* leaves the carry-over empty for the fragments that follow.
C14_CommentsAreIgnored ==
  \A i \in 1..Len(parts) :
    (parts[i].kind = "fragment" /\ parts[i].unparsed = <<>>)
      => \A r \in RenderedCommented :
           parts[i].bytes = r.text
             => ( /\ ~Panicked(i)
                  /\ ResultsOf(i) = ExpectedResults(WithoutComments(r.kinds))
                  /\ UnparsedAfter(i) = <<>> )

\* C14 witness: a fragment held a comment followed by a content event and
\* yielded the one event.
C14_Witness ==
  \E i \in 1..Len(parts) :
    /\ parts[i].kind = "fragment"
    /\ parts[i].unparsed = <<>>
    /\ parts[i].bytes = Render(<<"comment", "content">>)
    /\ Len(ResultsOf(i)) = 1

\* C15: a transport failure delivered in place of a fragment yields exactly
\* one ClientError element and no response event, leaves the carry-over
\* unchanged and does not end the sequence: a fragment of complete events
\* delivered right after it is decoded.
C15_TransportFailureIsOneClientError ==
  \A i \in 1..Len(parts) :
    parts[i].kind = "failure"
      => ( /\ ~Panicked(i)
           /\ ResultsOf(i) = <<Err("ClientError")>>
           /\ UnparsedAfter(i) = parts[i].unparsed
           /\ (i < Len(parts) /\ parts[i].unparsed = <<>> /\ parts[i + 1].kind = "fragment")
                => \A r \in Rendered :
                     parts[i + 1].bytes = r.text
                       => ResultsOf(i + 1) = ExpectedResults(r.kinds) )

\* C15 witness: a transport failure met a non-empty carry-over and the
\* stream yielded the ClientError.
C15_Witness ==
  \E i \in 1..Len(parts) :
    /\ parts[i].kind = "failure"
    /\ parts[i].unparsed # <<>>
    /\ ResultsOf(i) = <<Err("ClientError")>>
    /\ UnparsedAfter(i) = parts[i].unparsed

\* C16: once Done has been emitted, no further response event is emitted,
\* whatever text follows the sentinel.
C16_DoneIsTerminal ==
  \A i, j \in 1..Len(out) :
    (i < j /\ out[i] = Ok(Done)) => ~out[j].ok

\* every sequence of events with a parsable payload of at least one choice,
\* with its text
ParsableKinds == {"role", "content", "close", "multi"}
ParsableSeqs == UNION {[1..n -> ParsableKinds] : n \in 1..MaxEvents}
RenderedParsable == {[kinds |-> ks, text |-> Render(ks)] : ks \in ParsableSeqs}

\* C17: every complete prefixed non-sentinel piece with a parsable payload
\* yields exactly one response event, with the index and the variant of the
\* first element of choices; the other elements yield nothing.
C17_OneEventFromFirstChoice ==
  \A i \in 1..Len(parts) :
    (parts[i].kind = "fragment" /\ parts[i].unparsed = <<>>)
      => \A r \in RenderedParsable :
           parts[i].bytes = r.text
             => ( /\ ~Panicked(i)
                  /\ Len(ResultsOf(i)) = Len(r.kinds)
                  /\ ResultsOf(i) = ExpectedResults(r.kinds) )

\* C17 witness: a payload of two choices, the first with index 1 and an
\* empty delta, yielded the single event CloseResponse with index 1.
C17_Witness ==
  \E i \in 1..Len(parts) :
    /\ parts[i].kind = "fragment"
    /\ parts[i].unparsed = <<>>
    /\ parts[i].bytes = EventText("multi")
    /\ ResultsOf(i) = <<Ok(CloseResponse(1))>>

\* C18: a complete prefixed piece whose payload is a valid JSON object with
\* an empty choices array does not abort the decoder.
C18_EmptyChoicesDoesNotAbort ==
  \A i \in 1..Len(parts) :
    ( /\ parts[i].kind = "fragment"
      /\ parts[i].unparsed = <<>>
      /\ parts[i].bytes = EventText("nochoices") )
    => ~Panicked(i)

\* C19: the carry-over never contains an event terminator, and the piece
\* saved as carry-over is the end of the text the fragment iterated, so no
\* complete event stands after it.
C19_CarryOverHasNoTerminator ==
  /\ \A n \in 1..(Len(unparsed) - 1) : ~(unparsed[n] = NL /\ unparsed[n + 1] = NL)
  /\ \A i \in 1..Len(parts) :
       (parts[i].kind = "fragment" /\ ~Panicked(i))
         => EndsWith(parts[i].unparsed \o parts[i].bytes, UnparsedAfter(i))

\* C19 witness: a fragment yielded an event and then saved the incomplete
\* piece that followed it.
C19_Witness ==
  \E i \in 1..Len(parts) :
    /\ parts[i].kind = "fragment"
    /\ ~Panicked(i)
    /\ Len(ResultsOf(i)) >= 1
    /\ UnparsedAfter(i) # <<>>

====
